---- MODULE Spec2Model ----
(* Model of the VitalStream query-and-transform pipeline                   *)
(* (backend/src/python/main.py and influxdb3.py).                          *)
(*                                                                         *)
(* Instants are integers counted in minutes.  A frame is a sequence of     *)
(* records; the empty sequence is pl.DataFrame(): zero rows and no columns,*)
(* so every column access on it raises.  A handler runs from one blocking  *)
(* store call to the next; between two calls it is a function of the       *)
(* frames it has received so far.                                          *)
EXTENDS Integers, Sequences, FiniteSets, TLC

VARIABLES
    pc,        \* "idle", "waiting" (blocked in client.query), "returned", "raised"
    family,    \* the endpoint of the request being served
    dateArg,   \* its date parameter: a calendar day, or NoDate
    window,    \* the resolved start / end / tend instants
    inflight,  \* the queries handed to the store and not yet answered
    issued,    \* tables queried so far by this request, in order
    dfs,       \* frames get_dataframe has returned to this request, in order
    failures,  \* how many of those store calls failed
    result,    \* the value handed to the caller, or the error raised
    gorder     \* row order the last group_by produced (dietary trend)

vars == <<pc, family, dateArg, window, inflight, issued, dfs, failures,
          result, gorder>>

----------------------------------------------------------------------------
(* Bounds of the model *)

MaxDateOffset == 31
MaxRows == 3
MaxBucketRows == 3
BpMargin == 5

(* Program constants *)

Day == 24 * 60
BucketWidth == 10
TrendWindow == 7
TrendMinSamples == 3
Efficiency == 95
SecondsPerMinute == 60
NYOffset == 5 * 60
YearDays == 365
SummaryLookback == 1
HrLookback == 1
BpLookback == 30
GlucoseLookback == 30
SleepLookback == 7
WorkoutsDefaultLookback == 90
WorkoutsDateLookback == 30
DietaryLookback == 30
DietaryTrendLookback == 37
BodyLookback == 30

(* The clock: "now" in the fixed zone, and the calendar day it falls on *)
Now == 200 * Day + 615
Today == Now \div Day

(* Null markers, one per column type *)
NoDate == -1
NullNum == -1
NullTag == "null"

Families == {"summary", "hr", "bp", "glucose", "sleep", "workouts",
             "dietary", "body"}

----------------------------------------------------------------------------
(* General helpers *)

Range(s) == {s[i] : i \in 1..Len(s)}

Max2(a, b) == IF a >= b THEN a ELSE b

RECURSIVE SumSeq(_)
SumSeq(s) == IF s = <<>> THEN 0 ELSE Head(s) + SumSeq(Tail(s))

RECURSIVE Gcd(_, _)
Gcd(a, b) == IF b = 0 THEN a ELSE Gcd(b, a % b)

(* Exact fractions <<numerator, denominator>> stand for float columns;     *)
(* <<0, 0>> is the null of such a column.                                  *)
NullRat == <<0, 0>>
Rat(n, d) == IF d = 0 THEN NullRat ELSE <<n \div Gcd(n, d), d \div Gcd(n, d)>>
RatOfInt(n) == <<n, 1>>

(* Sequences over S that list every element of S exactly once *)
Perms(S) == {s \in [1..Cardinality(S) -> S] : Range(s) = S}

(* df.sort(col): stable sort, by the keys listed in row order *)
StableOrder(keys) ==
    LET n == Len(keys)
        rank(i) == 1 + Cardinality({j \in 1..n : \/ keys[j] < keys[i]
                                                 \/ keys[j] = keys[i] /\ j < i})
    IN  [k \in 1..n |-> CHOOSE i \in 1..n : rank(i) = k]

Reorder(s, order) == [k \in 1..Len(s) |-> s[order[k]]]

SortByTime(s) == Reorder(s, StableOrder([i \in 1..Len(s) |-> s[i].time]))
SortByDay(s) == Reorder(s, StableOrder([i \in 1..Len(s) |-> s[i].day]))

IsSortedByTime(s) == \A i \in 1..Len(s) - 1 : s[i].time <= s[i + 1].time

----------------------------------------------------------------------------
(* Display formats: each keeps only what the format string prints *)

DateOf(t) == t \div Day
Strftime_h_e(t) == DateOf(t) % YearDays                    \* '%h %e'
Strftime_HM(t) == t % Day                            \* '%H:%M'
Strftime_Ymd_HM(t) == <<DateOf(t), t % Day>>         \* '%Y-%m-%d %H:%M'
ToNewYork(t) == t - NYOffset
LocalDay(t) == DateOf(ToNewYork(t))                  \* '%Y-%m-%d' in New York

----------------------------------------------------------------------------
(* influxdb3.py: the store boundary *)

Failure == [ok |-> FALSE, rows |-> <<>>]
Table(rows) == [ok |-> TRUE, rows |-> rows]

EmptyFrame == <<>>

get_dataframe(resp) ==
    IF ~resp.ok THEN EmptyFrame
    ELSE IF resp.rows = <<>> THEN EmptyFrame
    ELSE SortByTime(resp.rows)

----------------------------------------------------------------------------
(* Window resolution, the head of every handler *)

DefaultLookback(f) ==
    CASE f = "summary"  -> SummaryLookback
      [] f = "hr"       -> HrLookback
      [] f = "bp"       -> BpLookback
      [] f = "glucose"  -> GlucoseLookback
      [] f = "sleep"    -> SleepLookback
      [] f = "workouts" -> WorkoutsDefaultLookback
      [] f = "dietary"  -> DietaryLookback
      [] f = "body"     -> BodyLookback

DateLookback(f) ==
    CASE f = "workouts" -> WorkoutsDateLookback
      [] OTHER          -> DefaultLookback(f)

(* summary and heart-rate take a date parameter and never read it *)
ReadsDate(f) == f \notin {"summary", "hr"}

ResolveWindow(f, d) ==
    LET today == Now
        start == today
        end   == IF ~ReadsDate(f) \/ d = NoDate
                 THEN today - DefaultLookback(f) * Day
                 ELSE d * Day - DateLookback(f) * Day
        tend  == IF f # "dietary" THEN end
                 ELSE IF d = NoDate THEN today - DietaryTrendLookback * Day
                 ELSE d * Day - DietaryTrendLookback * Day
    IN  [start |-> start, end |-> end, tend |-> tend]

(* The SQL text of the k-th query of a handler: its table and its range *)
Tables(f) ==
    CASE f = "summary"  -> <<"daily_totals">>
      [] f = "hr"       -> <<"heart_rate">>
      [] f = "bp"       -> <<"blood_pressure">>
      [] f = "glucose"  -> <<"blood_glucose">>
      [] f = "sleep"    -> <<"sleep_analysis">>
      [] f = "workouts" -> <<"workout", "workout_heart_rate">>
      [] f = "dietary"  -> <<"dietary_energy", "protein", "carbohydrates",
                             "total_fat", "dietary_energy">>
      [] f = "body"     -> <<"weight_body_mass", "body_fat_percentage">>

SqlQuery(f, k, w) ==
    [table |-> Tables(f)[k],
     lo    |-> IF f = "dietary" /\ k = 5 THEN w.tend ELSE w.end,
     hi    |-> w.start,
     upper |-> ReadsDate(f)]

(* WHERE time > lo [and time <= hi] *)
Matches(q, t) == t > q.lo /\ (q.upper => t <= q.hi)

----------------------------------------------------------------------------
(* What a handler does next, given the frames it has received *)

Query(q) == [kind |-> "query", q |-> q]
Return(v) == [kind |-> "return", value |-> v]
Raise(e) == [kind |-> "raise", value |-> e]

ColumnNotFound == "ColumnNotFoundError"

----------------------------------------------------------------------------
(* Aggregations: nulls are skipped, a group of nulls gives null *)

RatAdd(a, b) == Rat(a[1] * b[2] + b[1] * a[2], a[2] * b[2])

RECURSIVE RatSum(_)
RatSum(s) == IF s = <<>> THEN <<0, 1>> ELSE RatAdd(Head(s), RatSum(Tail(s)))

MeanRat(vals) ==
    LET present == SelectSeq(vals, LAMBDA v : v # NullRat)
        total   == RatSum(present)
    IN  IF present = <<>> THEN NullRat
        ELSE Rat(total[1], total[2] * Len(present))

MaxOf(vals) ==
    LET present == {v \in Range(vals) : v # NullNum}
    IN  IF present = {} THEN NullNum
        ELSE CHOOSE v \in present : \A u \in present : u <= v

MinOf(vals) ==
    LET present == {v \in Range(vals) : v # NullNum}
    IN  IF present = {} THEN NullNum
        ELSE CHOOSE v \in present : \A u \in present : v <= u

(* cast(pl.Int64) of a non-negative float: the fraction is cut off *)
CastInt(r) == IF r = NullRat THEN NullNum ELSE r[1] \div r[2]

Ascending(S) == CHOOSE s \in Perms(S) : \A i \in 1..Len(s) - 1 : s[i] < s[i + 1]

Column(df, c) == [i \in 1..Len(df) |-> df[i][c]]

----------------------------------------------------------------------------
(* get_summary *)

ZeroSummary ==
    [steps |-> 0, distance |-> 0, activeCalories |-> 0, basalCalories |-> 0,
     dietaryCalories |-> 0]

FirstValue(df, metric, sources) ==
    LET hit == SelectSeq(df, LAMBDA r : r.metric = metric /\ r.source \in sources)
    IN  IF hit = <<>> THEN 0 ELSE hit[1].value

AnySource == {"RingConn", "iPhone"}

SummaryShape(df0) ==
    LET df == SelectSeq(df0, LAMBDA r : DateOf(r.time) = Today)
    IN  [steps           |-> FirstValue(df, "step_count", {"RingConn"}),
         distance        |-> FirstValue(df, "walking_running_distance", AnySource),
         activeCalories  |-> FirstValue(df, "active_energy", {"RingConn"}),
         basalCalories   |-> FirstValue(df, "basal_energy_burned", {"RingConn"}),
         dietaryCalories |-> FirstValue(df, "dietary_energy", AnySource)]

get_summary(w, fr) ==
    IF Len(fr) = 0 THEN Query(SqlQuery("summary", 1, w))
    ELSE IF fr[1] = EmptyFrame THEN Return(ZeroSummary)
    ELSE Return(SummaryShape(fr[1]))

----------------------------------------------------------------------------
(* get_heart_rate *)

(* a window labelled by its closing boundary *)
Truncate_ClosingEdge(t) == t - (t % BucketWidth) + BucketWidth

Truncate(t) == t - (t % BucketWidth)

(* group_by_dynamic("time", every="10m").agg(mean, max, min): one row per  *)
(* populated window, windows ascending                                     *)
Bucket(df) ==
    LET starts == Ascending({Truncate(df[i].time) : i \in 1..Len(df)})
        rowsOf(b) == SelectSeq(df, LAMBDA r : Truncate(r.time) = b)
    IN  [k \in 1..Len(starts) |->
            [time |-> starts[k],
             avg  |-> MeanRat(Column(rowsOf(starts[k]), "avg")),
             max  |-> MaxOf(Column(rowsOf(starts[k]), "max")),
             min  |-> MinOf(Column(rowsOf(starts[k]), "min"))]]

LocalTime(df) == [i \in 1..Len(df) |-> [df[i] EXCEPT !.time = ToNewYork(@)]]

HeartRateShape(df) ==
    LET b == Bucket(LocalTime(df))
    IN  [i \in 1..Len(b) |-> [time |-> Strftime_HM(b[i].time), value |-> b[i].avg]]

get_heart_rate(w, fr) ==
    IF Len(fr) = 0 THEN Query(SqlQuery("hr", 1, w))
    ELSE IF fr[1] = EmptyFrame THEN Raise(ColumnNotFound)
    ELSE Return(HeartRateShape(fr[1]))

----------------------------------------------------------------------------
(* get_blood_pressure *)

(* the Elevated rule tried before the Stage 1 rule *)
Category_ElevatedFirst(systolic, diastolic) ==
    IF systolic > 180 \/ diastolic > 120 THEN "Hypertensive Crisis"
    ELSE IF systolic >= 140 \/ diastolic >= 90 THEN "Hypertension Stage 2"
    ELSE IF systolic >= 120 /\ diastolic < 80 THEN "Elevated"
    ELSE IF systolic >= 130 \/ diastolic >= 80 THEN "Hypertension Stage 1"
    ELSE "Normal"

Category(systolic, diastolic) ==
    IF systolic > 180 \/ diastolic > 120 THEN "Hypertensive Crisis"
    ELSE IF systolic >= 140 \/ diastolic >= 90 THEN "Hypertension Stage 2"
    ELSE IF systolic >= 130 \/ diastolic >= 80 THEN "Hypertension Stage 1"
    ELSE IF systolic >= 120 /\ diastolic < 80 THEN "Elevated"
    ELSE "Normal"

BloodPressureShape(df) ==
    [i \in 1..Len(df) |->
        [time      |-> Strftime_h_e(df[i].time),
         systolic  |-> df[i].systolic,
         diastolic |-> df[i].diastolic,
         category  |-> Category(df[i].systolic, df[i].diastolic)]]

get_blood_pressure(w, fr) ==
    IF Len(fr) = 0 THEN Query(SqlQuery("bp", 1, w))
    ELSE IF fr[1] = EmptyFrame THEN Return(<<>>)
    ELSE Return(BloodPressureShape(fr[1]))

----------------------------------------------------------------------------
(* get_glucose *)

GlucoseShape(df) ==
    [i \in 1..Len(df) |-> [time |-> Strftime_h_e(df[i].time), value |-> df[i].qty]]

get_glucose(w, fr) ==
    IF Len(fr) = 0 THEN Query(SqlQuery("glucose", 1, w))
    ELSE IF fr[1] = EmptyFrame THEN Return(<<>>)
    ELSE Return(GlucoseShape(fr[1]))

----------------------------------------------------------------------------
(* get_sleep *)

SleepShape(df) ==
    [i \in 1..Len(df) |->
        [date          |-> Strftime_h_e(df[i].time),
         totalDuration |-> df[i].totalSleep,
         deepSleep     |-> df[i].deep,
         remSleep      |-> df[i].rem,
         lightSleep    |-> df[i].core,
         awake         |-> df[i].awake,
         efficiency    |-> Efficiency]]

get_sleep(w, fr) ==
    IF Len(fr) = 0 THEN Query(SqlQuery("sleep", 1, w))
    ELSE IF fr[1] = EmptyFrame THEN Return(<<>>)
    ELSE Return(SleepShape(fr[1]))

----------------------------------------------------------------------------
(* df.join(other, on=key, how='left'): a left row is emitted once per     *)
(* matching right row, or once with nulls when nothing matches             *)

RECURSIVE LeftJoin(_, _, _, _)
LeftJoin(left, right, key, nulls) ==
    IF left = <<>> THEN <<>>
    ELSE LET l == Head(left)
             m == SelectSeq(right, LAMBDA r : r[key] = l[key])
             out == IF m = <<>> THEN <<l @@ nulls>>
                    ELSE [j \in 1..Len(m) |-> l @@ m[j]]
         IN  out \o LeftJoin(Tail(left), right, key, nulls)

(* fill_null(strategy='forward') over one column *)
RECURSIVE FillForward(_)
FillForward(vals) ==
    IF vals = <<>> THEN <<>>
    ELSE LET n == Len(vals)
             before == FillForward(SubSeq(vals, 1, n - 1))
         IN  Append(before,
                    IF vals[n] # NullNum \/ n = 1 THEN vals[n] ELSE before[n - 1])

----------------------------------------------------------------------------
(* get_workouts *)

WorkoutSelect(df) ==
    [i \in 1..Len(df) |->
        [workout_id          |-> df[i].workout_id,
         time                |-> df[i].time,
         workout_name        |-> df[i].workout_name,
         duration            |-> df[i].duration \div SecondsPerMinute,
         active_energy_value |-> df[i].active_energy_value,
         type                |-> df[i].workout_name]]

(* group_by('workout_id').agg(avg.mean().cast(Int64)); the join below does *)
(* not depend on the order of the groups                                   *)
AvgByWorkout(df2) ==
    LET ids == Ascending({df2[i].workout_id : i \in 1..Len(df2)})
        avgs(id) == Column(SelectSeq(df2, LAMBDA r : r.workout_id = id), "avg")
    IN  [k \in 1..Len(ids) |->
            [workout_id |-> ids[k],
             avg |-> CastInt(MeanRat([j \in 1..Len(avgs(ids[k])) |->
                                        RatOfInt(avgs(ids[k])[j])]))]]

WorkoutJoin(df, df2) == LeftJoin(df, AvgByWorkout(df2), "workout_id", [avg |-> NullNum])

WorkoutShape(df, df2) ==
    LET j == WorkoutJoin(WorkoutSelect(df), df2)
    IN  [i \in 1..Len(j) |->
            [workout_id |-> j[i].workout_id,
             time       |-> Strftime_Ymd_HM(j[i].time),
             name       |-> j[i].workout_name,
             duration   |-> j[i].duration,
             calories   |-> j[i].active_energy_value,
             type       |-> j[i].type,
             avgHr      |-> j[i].avg]]

(* the handler without its `if df.is_empty(): return []` *)
get_workouts_NoEmptyCheck(w, fr) ==
    IF Len(fr) = 0 THEN Query(SqlQuery("workouts", 1, w))
    ELSE IF Len(fr) = 1 THEN Query(SqlQuery("workouts", 2, w))
    ELSE IF fr[1] = EmptyFrame \/ fr[2] = EmptyFrame THEN Raise(ColumnNotFound)
    ELSE Return(WorkoutShape(fr[1], fr[2]))

get_workouts(w, fr) ==
    IF Len(fr) = 0 THEN Query(SqlQuery("workouts", 1, w))
    ELSE IF fr[1] = EmptyFrame THEN Return(<<>>)
    ELSE IF Len(fr) = 1 THEN Query(SqlQuery("workouts", 2, w))
    ELSE IF fr[2] = EmptyFrame THEN Raise(ColumnNotFound)
    ELSE Return(WorkoutShape(fr[1], fr[2]))

----------------------------------------------------------------------------
(* get_dietary_trends *)

DaysOf(df) == {LocalDay(df[i].time) : i \in 1..Len(df)}

QtyOn(df, d) == SumSeq(Column(SelectSeq(df, LAMBDA r : LocalDay(r.time) = d), "qty"))

(* group_by('day').agg(qty.sum().cast(Int64).alias(col)).sort('day') *)
DailySum(df, col) ==
    LET days == Ascending(DaysOf(df))
    IN  [k \in 1..Len(days) |-> [day |-> days[k]] @@ (col :> QtyOn(df, days[k]))]

(* rolling_mean(window_size=7, min_samples=3).cast(Int64) at row i *)
RollingMean(vals, i) ==
    LET lo == Max2(1, i - TrendWindow + 1)
        win == SubSeq(vals, lo, i)
    IN  IF Len(win) < TrendMinSamples THEN NullNum
        ELSE CastInt(Rat(SumSeq(win), Len(win)))

(* group_by('day').agg(sum) leaves the groups in the order `order`; the    *)
(* rolling mean runs over the rows in that order, and the sort comes last  *)
TrendFrame(df5, order) ==
    LET sums == [k \in 1..Len(order) |-> QtyOn(df5, order[k])]
        rolled == [k \in 1..Len(order) |->
                     [day |-> order[k], trend |-> RollingMean(sums, k)]]
    IN  SortByDay(rolled)

DietaryJoin(df, df2, df3, df4, df5) ==
    LeftJoin(LeftJoin(LeftJoin(LeftJoin(df, df2, "day", [protein |-> NullNum]),
                               df3, "day", [carbs |-> NullNum]),
                      df4, "day", [fat |-> NullNum]),
             df5, "day", [trend |-> NullNum])

DietaryShape(fr, order) ==
    LET j == DietaryJoin(DailySum(fr[1], "calories"), DailySum(fr[2], "protein"),
                         DailySum(fr[3], "carbs"), DailySum(fr[4], "fat"),
                         TrendFrame(fr[5], order))
        filled == FillForward(Column(j, "trend"))
    IN  [i \in 1..Len(j) |->
            [date     |-> j[i].day % YearDays,
             calories |-> j[i].calories,
             protein  |-> j[i].protein,
             carbs    |-> j[i].carbs,
             fat      |-> j[i].fat,
             trend    |-> filled[i]]]

get_dietary_trends(w, fr, order) ==
    IF Len(fr) = 0 THEN Query(SqlQuery("dietary", 1, w))
    ELSE IF fr[1] = EmptyFrame THEN Return(<<>>)
    ELSE IF fr[Len(fr)] = EmptyFrame THEN Raise(ColumnNotFound)
    ELSE IF Len(fr) < 5 THEN Query(SqlQuery("dietary", Len(fr) + 1, w))
    ELSE Return(DietaryShape(fr, order))

----------------------------------------------------------------------------
(* get_body_composition *)

WeightFrame(df) ==
    [i \in 1..Len(df) |->
        [time |-> df[i].time, weight |-> df[i].qty, source |-> df[i].source]]

(* the right frame's own `source` column comes out of the join suffixed *)
BodyFatFrame(df2) ==
    [i \in 1..Len(df2) |->
        [time |-> df2[i].time, bodyFat |-> df2[i].qty, source_right |-> df2[i].source]]

BodyJoin(df, df2) ==
    LeftJoin(WeightFrame(df), BodyFatFrame(df2), "time",
             [bodyFat |-> NullNum, source_right |-> NullTag])

(* df.drop_nulls(): a row goes when any of its columns is null *)
DropNulls(j) ==
    SelectSeq(j, LAMBDA r : /\ r.weight # NullNum
                            /\ r.bodyFat # NullNum
                            /\ r.source # NullTag
                            /\ r.source_right # NullTag)

BodyShape(df, df2) ==
    LET kept == DropNulls(BodyJoin(df, df2))
    IN  [i \in 1..Len(kept) |->
            [time    |-> Strftime_h_e(kept[i].time),
             weight  |-> kept[i].weight,
             bodyFat |-> kept[i].bodyFat]]

get_body_composition(w, fr) ==
    IF Len(fr) = 0 THEN Query(SqlQuery("body", 1, w))
    ELSE IF fr[1] = EmptyFrame THEN Return(<<>>)
    ELSE IF Len(fr) = 1 THEN Query(SqlQuery("body", 2, w))
    ELSE IF fr[2] = EmptyFrame THEN Raise(ColumnNotFound)
    ELSE Return(BodyShape(fr[1], fr[2]))

----------------------------------------------------------------------------
Handler(f, w, fr, order) ==
    CASE f = "summary"  -> get_summary(w, fr)
      [] f = "hr"       -> get_heart_rate(w, fr)
      [] f = "bp"       -> get_blood_pressure(w, fr)
      [] f = "glucose"  -> get_glucose(w, fr)
      [] f = "sleep"    -> get_sleep(w, fr)
      [] f = "workouts" -> get_workouts(w, fr)
      [] f = "dietary"  -> get_dietary_trends(w, fr, order)
      [] f = "body"     -> get_body_composition(w, fr)

----------------------------------------------------------------------------
(* The store: what each table may hold.  A query is answered with rows of  *)
(* its table that satisfy its WHERE clause, ORDER BY time ASC.             *)

Pool(table) ==
    CASE table = "daily_totals" ->
           {[time |-> Now - 30, metric |-> "step_count", source |-> "RingConn", value |-> 5000],
            [time |-> Now - 20, metric |-> "dietary_energy", source |-> "iPhone", value |-> 1800],
            [time |-> Now - 700, metric |-> "step_count", source |-> "RingConn", value |-> 7000]}
      [] table = "heart_rate" ->
           {[time |-> Now - 25, avg |-> <<60, 1>>, max |-> 70, min |-> 50],
            [time |-> Now - 21, avg |-> <<65, 1>>, max |-> 80, min |-> 55],
            [time |-> Now - 5, avg |-> <<70, 1>>, max |-> 90, min |-> 60]}
      [] table = "blood_pressure" ->
           {[time |-> Now - Day, systolic |-> 185, diastolic |-> 70],
            [time |-> Now - 2 * Day, systolic |-> 125, diastolic |-> 70],
            [time |-> Now - 40 * Day, systolic |-> 110, diastolic |-> 70]}
      [] table = "blood_glucose" ->
           {[time |-> Now - Day, qty |-> 95],
            [time |-> Now - 35 * Day, qty |-> 110]}
      [] table = "sleep_analysis" ->
           {[time |-> Now - Day, totalSleep |-> 7, deep |-> 1, rem |-> 2,
             core |-> 4, awake |-> 1],
            [time |-> Now - 10 * Day, totalSleep |-> 6, deep |-> 1, rem |-> 1,
             core |-> 4, awake |-> 2]}
      [] table = "workout" ->
           {[workout_id |-> 1, time |-> Now - 2 * Day, workout_name |-> "Run",
             duration |-> 3600, active_energy_value |-> 400],
            [workout_id |-> 2, time |-> Now - 50 * Day, workout_name |-> "Walk",
             duration |-> 1830, active_energy_value |-> 120]}
      [] table = "workout_heart_rate" ->
           {[workout_id |-> 1, time |-> Now - 2 * Day, avg |-> 140],
            [workout_id |-> 1, time |-> Now - 2 * Day + 1, avg |-> 151],
            [workout_id |-> 3, time |-> Now - 3 * Day, avg |-> 120]}
      [] table = "dietary_energy" ->
           {[time |-> Now - Day, qty |-> 2000],
            [time |-> Now - 2 * Day, qty |-> 1800],
            [time |-> Now - 3 * Day, qty |-> 2300],
            [time |-> Now - 33 * Day, qty |-> 2600]}
      [] table = "protein" -> {[time |-> Now - Day, qty |-> 100]}
      [] table = "carbohydrates" -> {[time |-> Now - 2 * Day, qty |-> 250]}
      [] table = "total_fat" -> {[time |-> Now - Day, qty |-> 70]}
      [] table = "weight_body_mass" ->
           {[time |-> Now - Day, qty |-> 80, source |-> "scale"],
            [time |-> Now - 2 * Day, qty |-> 81, source |-> NullTag]}
      [] table = "body_fat_percentage" ->
           {[time |-> Now - Day, qty |-> 20, source |-> "scale"],
            [time |-> Now - Day, qty |-> 21, source |-> "app"],
            [time |-> Now - 2 * Day, qty |-> 22, source |-> "scale"]}

OrderByTime(S) == {s \in Perms(S) : IsSortedByTime(s)}

Answers(q) ==
    LET hits == {r \in Pool(q.table) : Matches(q, r.time)}
    IN  UNION {OrderByTime(S) : S \in {T \in SUBSET hits : Cardinality(T) <= MaxRows}}

DateArgs == {NoDate} \cup (Today - MaxDateOffset .. Today + MaxDateOffset)

(* the order in which group_by hands back the days of the trend frame *)
GroupOrders(f, fr) ==
    IF f = "dietary" /\ Len(fr) = 5 /\ fr[5] # EmptyFrame
    THEN Perms(DaysOf(fr[5]))
    ELSE {<<>>}

----------------------------------------------------------------------------
(* One request at a time: the handlers are coroutines that never await     *)

NoWindow == [start |-> 0, end |-> 0, tend |-> 0]

Init ==
    /\ pc = "idle"
    /\ family = "summary"
    /\ dateArg = NoDate
    /\ window = NoWindow
    /\ inflight = {}
    /\ issued = <<>>
    /\ dfs = <<>>
    /\ failures = 0
    /\ result = <<>>
    /\ gorder = <<>>

(* run the handler until it blocks in the store, returns or raises *)
Advance(f, w, fr, order) ==
    LET eff == Handler(f, w, fr, order)
    IN  /\ gorder' = order
        /\ IF eff.kind = "query"
           THEN /\ pc' = "waiting"
                /\ inflight' = {eff.q}
                /\ issued' = Append(issued, eff.q.table)
                /\ result' = <<>>
           ELSE /\ pc' = IF eff.kind = "return" THEN "returned" ELSE "raised"
                /\ inflight' = {}
                /\ issued' = issued
                /\ result' = eff.value

Request(f, d) ==
    /\ pc = "idle"
    /\ family' = f
    /\ dateArg' = d
    /\ window' = ResolveWindow(f, d)
    /\ dfs' = <<>>
    /\ failures' = 0
    /\ Advance(f, ResolveWindow(f, d), <<>>, <<>>)

(* client.query returns a table: get_dataframe hands back a frame *)
StoreReturns(rows) ==
    /\ pc = "waiting"
    /\ inflight # {}
    /\ LET fr == Append(dfs, get_dataframe(Table(rows)))
       IN  /\ dfs' = fr
           /\ \E order \in GroupOrders(family, fr) :
                 Advance(family, window, fr, order)
    /\ UNCHANGED <<family, dateArg, window, failures>>

StoreAnswers == \E q \in inflight : \E rows \in Answers(q) : StoreReturns(rows)

(* client.query raises: get_dataframe catches and hands back an empty frame *)
StoreFails ==
    /\ pc = "waiting"
    /\ inflight # {}
    /\ LET fr == Append(dfs, get_dataframe(Failure))
       IN  /\ dfs' = fr
           /\ Advance(family, window, fr, <<>>)
    /\ failures' = failures + 1
    /\ UNCHANGED <<family, dateArg, window>>

(* the response leaves; nothing of the request is kept *)
Respond ==
    /\ pc \in {"returned", "raised"}
    /\ pc' = "idle"
    /\ family' = "summary"
    /\ dateArg' = NoDate
    /\ window' = NoWindow
    /\ inflight' = {}
    /\ issued' = <<>>
    /\ dfs' = <<>>
    /\ failures' = 0
    /\ result' = <<>>
    /\ gorder' = <<>>

Next ==
    \/ \E f \in Families, d \in DateArgs : Request(f, d)
    \/ StoreAnswers
    \/ StoreFails
    \/ Respond

Spec == Init /\ [][Next]_vars

----------------------------------------------------------------------------
(* Blood pressure over a full grid of readings: one stored row per request *)

Systolics == 105..(180 + BpMargin)
Diastolics == 65..(120 + BpMargin)

BpTables ==
    {<<[time |-> Now - Day, systolic |-> s, diastolic |-> d]>> :
        s \in Systolics, d \in Diastolics}

RequestBP == Request("bp", NoDate)

StoreAnswersBP == \E rows \in BpTables : StoreReturns(rows)

NextBP == RequestBP \/ StoreAnswersBP \/ Respond

SpecBP == Init /\ [][NextBP]_vars

----------------------------------------------------------------------------
(* Heart-rate bucketing applied to a frame, then to its own output *)

HrTimes == {Now - 25, Now - 21, Now - 12, Now - 5}
HrAvgs == {<<60, 1>>, <<65, 1>>, NullRat}
HrExtremes == {<<70, 50>>, <<90, 60>>, <<NullNum, NullNum>>}

HrRows ==
    {[time |-> t, avg |-> a, max |-> e[1], min |-> e[2]] :
        t \in HrTimes, a \in HrAvgs, e \in HrExtremes}

HrFrames ==
    UNION {{s \in [1..n -> HrRows] : IsSortedByTime(s)} : n \in 1..MaxBucketRows}

InitBucket ==
    /\ pc = "bucketing"
    /\ family = "hr"
    /\ dateArg = NoDate
    /\ window = ResolveWindow("hr", NoDate)
    /\ inflight = {}
    /\ issued = <<"heart_rate">>
    /\ dfs \in {<<df>> : df \in HrFrames}
    /\ failures = 0
    /\ result = <<>>
    /\ gorder = <<>>

(* lines 191-202 on the frame as loaded *)
BucketLoaded ==
    /\ pc = "bucketing"
    /\ Len(dfs) = 1
    /\ dfs' = Append(dfs, Bucket(LocalTime(dfs[1])))
    /\ UNCHANGED <<pc, family, dateArg, window, inflight, issued, failures,
                   result, gorder>>

(* lines 198-202 again, on what they produced *)
BucketAgain ==
    /\ pc = "bucketing"
    /\ Len(dfs) = 2
    /\ dfs' = Append(dfs, Bucket(dfs[2]))
    /\ UNCHANGED <<pc, family, dateArg, window, inflight, issued, failures,
                   result, gorder>>

NextBucket == BucketLoaded \/ BucketAgain

SpecBucket == InitBucket /\ [][NextBucket]_vars

----------------------------------------------------------------------------
(* Properties *)

Finished == pc \in {"returned", "raised"}
MultiQuery == {"workouts", "dietary", "body"}
EmptyResult == IF family = "summary" THEN result = ZeroSummary ELSE result = <<>>

(* C1: when the first query of a family returns zero rows, the transform   *)
(* completes without error: summary returns the all-zero record and every  *)
(* other family returns the empty sequence.                                *)
C1_ZeroRowsGiveEmptyResult ==
    (Finished /\ failures = 0 /\ Len(dfs) = 1 /\ dfs[1] = EmptyFrame)
        => (pc = "returned" /\ EmptyResult)

(* C3: a store failure on any query of a transform, the first or a later   *)
(* one, never reaches the caller as an exception; the transform ends with  *)
(* an empty or zero result.                                                *)
C3_StoreFailureDegrades ==
    (Finished /\ failures > 0) => (pc = "returned" /\ EmptyResult)

(* C4: every left join of a transform keeps the left-row count, whatever   *)
(* the right frame holds, duplicate keys included.                         *)
C4_LeftJoinKeepsRowCount ==
    (pc = "returned" /\ family \in MultiQuery /\ Len(dfs) = Len(Tables(family)))
        => CASE family = "workouts" ->
                  Len(WorkoutJoin(WorkoutSelect(dfs[1]), dfs[2])) = Len(dfs[1])
             [] family = "dietary" ->
                  Len(result) = Cardinality(DaysOf(dfs[1]))
             [] family = "body" ->
                  Len(BodyJoin(dfs[1], dfs[2])) = Len(dfs[1])

(* C5: for every family that reads its date parameter, a supplied date d   *)
(* gives start = d and end = d - L, no date gives start = now and          *)
(* end = now - L, and end < start in every case.                           *)
C5_WindowResolution ==
    (pc # "idle" /\ ReadsDate(family))
        => LET base == IF dateArg = NoDate THEN Now ELSE dateArg * Day
               L == IF dateArg = NoDate THEN DefaultLookback(family)
                    ELSE DateLookback(family)
           IN  /\ window.start = base
               /\ window.end = base - L * Day
               /\ window.end < window.start

(* C8: both workouts queries are bounded to a trailing 30 days, with or    *)
(* without a date parameter.                                               *)
C8_WorkoutsThirtyDays ==
    (family = "workouts" /\ pc = "waiting")
        => \A q \in inflight :
              q.lo = (IF dateArg = NoDate THEN Now ELSE dateArg * Day) - 30 * Day

(* C9: body-composition emits a record for a weight row if and only if a   *)
(* body-fat row exists at exactly the same timestamp.                      *)
C9_BodyEmitsIffMatched ==
    (pc = "returned" /\ family = "body" /\ Len(dfs) = 2)
        => \A i \in 1..Len(dfs[1]) :
              (\E j \in 1..Len(dfs[2]) : dfs[2][j].time = dfs[1][i].time)
                  <=> (\E k \in 1..Len(result) :
                          /\ result[k].weight = dfs[1][i].qty
                          /\ result[k].time = Strftime_h_e(dfs[1][i].time))

(* The classification as the specification lists it: rule k, tried in order *)
Rule(k, s, d) ==
    CASE k = 1 -> s > 180 \/ d > 120
      [] k = 2 -> s >= 140 \/ d >= 90
      [] k = 3 -> s >= 130 \/ d >= 80
      [] k = 4 -> s >= 120 /\ d < 80
      [] k = 5 -> TRUE

CategoryNames ==
    <<"Hypertensive Crisis", "Hypertension Stage 2", "Hypertension Stage 1",
      "Elevated", "Normal">>

FirstMatch(s, d) ==
    CHOOSE k \in 1..5 : Rule(k, s, d) /\ \A j \in 1..(k - 1) : ~Rule(j, s, d)

Reading(r, s, d) == r.systolic = s /\ r.diastolic = d

(* C2: blood-pressure classification is total and first-match-wins: every  *)
(* row gets exactly one category, the one of the first rule that matches   *)
(* in the order Crisis, Stage 2, Stage 1, Elevated, Normal.                *)
C2_FirstMatchWins ==
    (pc = "returned" /\ family = "bp" /\ dfs[1] # EmptyFrame)
        => /\ Len(result) = Len(dfs[1])
           /\ \A i \in 1..Len(result) :
                LET r == result[i]
                IN  /\ r.systolic = dfs[1][i].systolic
                    /\ r.diastolic = dfs[1][i].diastolic
                    /\ r.category = CategoryNames[FirstMatch(r.systolic, r.diastolic)]
                    /\ Reading(r, 185, 70) => r.category = "Hypertensive Crisis"
                    /\ Reading(r, 130, 70) => r.category = "Hypertension Stage 1"
                    /\ Reading(r, 125, 70) => r.category = "Elevated"
                    /\ Reading(r, 110, 70) => r.category = "Normal"

C2_Witness ==
    /\ pc = "returned"
    /\ family = "bp"
    /\ \E i \in 1..Len(result) :
          Reading(result[i], 130, 70) /\ result[i].category = "Hypertension Stage 1"

(* The trend of day d over the days of df5 taken in chronological order *)
ClaimedTrend(df5, d) ==
    LET days == Ascending(DaysOf(df5))
        k == CHOOSE i \in 1..Len(days) : days[i] = d
        lo == Max2(1, k - TrendWindow + 1)
        n == k - lo + 1
    IN  IF n < TrendMinSamples THEN NullNum
        ELSE SumSeq([j \in 1..n |-> QtyOn(df5, days[lo + j - 1])]) \div n

ClaimedFill(vals, i) ==
    LET earlier == {j \in 1..i : vals[j] # NullNum}
    IN  IF earlier = {} THEN NullNum
        ELSE vals[CHOOSE j \in earlier : \A u \in earlier : u <= j]

(* C6: in chronological day order the trend of a day is null while fewer   *)
(* than 3 days lie in the trailing window of 7 and the mean of the window  *)
(* otherwise, whatever order the group-by produced; in the emitted         *)
(* sequence a null after a non-null takes the latest earlier non-null.     *)
C6_ChronologicalTrend ==
    (pc = "returned" /\ family = "dietary" /\ Len(dfs) = 5)
        => LET days == Ascending(DaysOf(dfs[1]))
               raw == [i \in 1..Len(days) |->
                         IF days[i] \in DaysOf(dfs[5])
                         THEN ClaimedTrend(dfs[5], days[i]) ELSE NullNum]
           IN  /\ Len(result) = Len(days)
               /\ \A i \in 1..Len(days) : result[i].trend = ClaimedFill(raw, i)

(* C7: bucketing the output of the 10-minute bucketing again gives the     *)
(* same frame: same rows, same order, same values.                         *)
C7_BucketIdempotent == Len(dfs) = 3 => dfs[3] = dfs[2]

C7_Witness ==
    /\ pc = "bucketing"
    /\ Len(dfs) = 3
    /\ Len(dfs[2]) >= 2
    /\ Len(dfs[2]) < Len(dfs[1])
    /\ dfs[3] = dfs[2]

(* C10: a multi-query transform has at most one query in flight, issues    *)
(* its queries in the fixed order of its tables, each only after the       *)
(* previous one was answered, and issues nothing after a first query that  *)
(* came back with zero rows: it returns the empty result.                  *)
C10_SequentialQueries ==
    (pc # "idle" /\ family \in MultiQuery)
        => /\ Cardinality(inflight) <= 1
           /\ Len(issued) = Len(dfs) + Cardinality(inflight)
           /\ Len(issued) <= Len(Tables(family))
           /\ issued = SubSeq(Tables(family), 1, Len(issued))
           /\ (Len(dfs) >= 1 /\ dfs[1] = EmptyFrame)
                 => (Len(issued) = 1 /\ pc = "returned" /\ result = <<>>)

C10_Witness ==
    /\ pc = "returned"
    /\ family \in MultiQuery
    /\ Len(dfs) = 1
    /\ dfs[1] = EmptyFrame
    /\ issued = <<Tables(family)[1]>>

----------------------------------------------------------------------------
(* The response models: the fields every emitted record must carry *)

ResponseFields(f) ==
    CASE f = "summary"  -> {"steps", "distance", "activeCalories", "basalCalories",
                            "dietaryCalories"}
      [] f = "hr"       -> {"time", "value"}
      [] f = "bp"       -> {"time", "systolic", "diastolic", "category"}
      [] f = "glucose"  -> {"time", "value"}
      [] f = "sleep"    -> {"date", "totalDuration", "deepSleep", "remSleep",
                            "lightSleep", "awake", "efficiency"}
      [] f = "workouts" -> {"id", "time", "name", "duration", "calories", "type",
                            "avgHr"}
      [] f = "dietary"  -> {"date", "calories", "protein", "carbs", "fat", "trend"}
      [] f = "body"     -> {"time", "weight", "bodyFat"}

(* the numeric fields of a response model, the float-valued one apart *)
NumericFields(f) ==
    CASE f = "hr" -> {}
      [] f = "bp" -> {"systolic", "diastolic"}
      [] OTHER    -> ResponseFields(f) \ {"id", "time", "date", "name", "type"}

Emitted == IF family = "summary" THEN <<result>> ELSE result

HasField(r, c) == c \in DOMAIN r

NonNull(f, r) ==
    /\ \A c \in NumericFields(f) : HasField(r, c) => r[c] # NullNum
    /\ (f = "hr" /\ HasField(r, "value")) => r.value # NullRat

(* C11: every record a transform emits carries a non-null value for every  *)
(* field of its response model, whatever the queries returned: a workout   *)
(* without heart-rate rows has an avgHr, a dietary day without protein,    *)
(* carbs, fat or trend rows has all four.                                  *)
C11_EveryFieldNonNull ==
    pc = "returned"
        => \A i \in 1..Len(Emitted) :
              /\ NonNull(family, Emitted[i])
              /\ \A c \in ResponseFields(family) : HasField(Emitted[i], c)

====
